---- MODULE Spec2Model ----
(***************************************************************************)
(* Model of noveltygrinder.py: the candidate pipeline of analyzePosition,  *)
(* the game walker of analyzeGame, the retry loop of getOpeningStats and   *)
(* the engine life cycle of main / initializeEngines / closeEngines.       *)
(*                                                                         *)
(* Five specifications share the variables:                                *)
(*   Spec      one game walked by analyzeGame (several plies, an engine    *)
(*             answering with at most WalkLines lines);                    *)
(*   SpecPos   one analysed position with a full multi-line engine answer, *)
(*             side variations in the input node (only the white engine is *)
(*             given, so the position after the first move is walked but   *)
(*             not analysed);                                              *)
(*   SpecBook  one analysed position with a varying opening book and       *)
(*             varying rarity options;                                     *)
(*   SpecScenario  one analysed position with the scores, the book and     *)
(*             the refined scores of a worked example;                     *)
(*   SpecMain  main(): engine initialisation, the loop over the games and  *)
(*             the closing of the engines.                                 *)
(***************************************************************************)
EXTENDS Integers, Sequences, FiniteSets, TLC

\* ---------------------------------------------------------------- bounds
NumMoves == 3          \* legal moves of a position are 1..NumMoves
MaxPlies == 2          \* mainline length of the walked game (Spec)
WalkLines == 1         \* lines of an engine answer in Spec
MaxLines == 2          \* lines of an engine answer in SpecPos
MaxVariations == 1     \* variations of the input node in SpecPos
MaxBookMoves == 2      \* entries of openingStats['moves']
MaxGameCount == 2      \* largest per-move game count in the book
MaxRunGames == 2       \* games read by main() in SpecMain

\* ------------------------------------------------------ program constants
EvalThresholdCpDefault == 200
InitialEvalMarginCpDefault == 300
BookCutoffDefault == 2
DoubleCheckNodesDefault == 10000
MaxAttempts == 3
SleepBase == 1
SleepStep == 2

\* ------------------------------------------------------------ value sets
Moves == 1..NumMoves
\* Lichess reports castling as king-takes-rook (e1h1); python-chess and the
\* engine use e1g1.  AltCastle is that second encoding of move CastleMove.
CastleMove == 1
AltCastle == 0
UciMoves == Moves \cup {AltCastle}
SanBase == 100
NoScore == -1
None == 0
Scores == {8400, 8500, 9000}
RefinedScores == {8800, 9000}
NodeCounts == {5000, 10000}
\* rarityThresholdFreq is a fraction FreqNum / FreqDen (0.05 = 1/20, 0.5 = 10/20)
FreqDen == 20
FreqNums == {1, 10}
ZeroFreq == [num |-> 0, den |-> 1]

\* curBoard.san(move): the position's own notation; both castling encodings
\* give the same SAN
San(m) == IF m = AltCastle THEN SanBase + CastleMove ELSE SanBase + m

Range(s) == {s[i] : i \in 1..Len(s)}
Distinct(s) == \A i, j \in 1..Len(s) : i # j => s[i] # s[j]
SeqsUpTo(S, n) == UNION {[1..k -> S] : k \in 0..n}

\* ------------------------------------------------------------- candidates
\* class AnalysisMoveInfo; rank is the object's identity: the index of the
\* engine line it was built from, 0 for one synthesized from an input move
AnalysisMoveInfo(evalCp, nodes, pv, rank) ==
    [move |-> pv[1], evalCp |-> evalCp, nodes |-> nodes, freq |-> ZeroFreq,
     novelty |-> TRUE, inputMove |-> FALSE, strongMove |-> TRUE,
     unpopularMove |-> TRUE, pv |-> pv, rank |-> rank]

\* engineAnalysis: keep the lines that have a score and a non-empty pv
RECURSIVE BuildCandidates(_, _)
BuildCandidates(lines, k) ==
    IF lines = <<>> THEN <<>>
    ELSE LET i == Head(lines)
         IN IF i.score # NoScore /\ Len(i.pv) > 0
            THEN <<AnalysisMoveInfo(i.score, i.nodes, i.pv, k)>>
                     \o BuildCandidates(Tail(lines), k + 1)
            ELSE BuildCandidates(Tail(lines), k + 1)

engineAnalysis(lines, evalThresholdCpOpt) ==
    LET ams == BuildCandidates(lines, 1)
    IN IF Len(ams) = 0
       THEN [moves |-> <<>>, threshold |-> 0]
       ELSE [moves |-> ams,
             threshold |-> ams[1].evalCp - evalThresholdCpOpt]

RECURSIVE MergeLoop(_, _, _)
MergeLoop(ret, numInputs, rest) ==
    IF rest = <<>> THEN ret
    ELSE LET am == Head(rest)
             hits == {i \in 1..numInputs : San(ret[i].move) = San(am.move)}
             amIn == [am EXCEPT !.inputMove = TRUE]
             ret2 == IF hits = {} THEN Append(ret, am)
                     ELSE [i \in 1..Len(ret) |-> IF i \in hits THEN amIn ELSE ret[i]]
         IN MergeLoop(ret2, numInputs, Tail(rest))

forceAddInputMoves(analysisMoves, variations) ==
    LET ret == [i \in 1..Len(variations) |->
                  [AnalysisMoveInfo(0, 0, <<variations[i]>>, 0) EXCEPT !.inputMove = TRUE]]
    IN MergeLoop(ret, Len(variations), analysisMoves)

\* mutant: the kept candidates are returned in reverse order
pruneWeakMovesReversed(analysisMoves, evalThresholdCp) ==
    LET marked == [i \in 1..Len(analysisMoves) |->
                     [analysisMoves[i] EXCEPT
                        !.strongMove = (analysisMoves[i].evalCp >= evalThresholdCp)]]
        kept == SelectSeq(marked, LAMBDA am : am.strongMove \/ am.inputMove)
    IN [i \in 1..Len(kept) |-> kept[Len(kept) + 1 - i]]

\* mutant: a score equal to the threshold counts as weak
pruneWeakMovesStrict(analysisMoves, evalThresholdCp) ==
    LET marked == [i \in 1..Len(analysisMoves) |->
                     [analysisMoves[i] EXCEPT
                        !.strongMove = (analysisMoves[i].evalCp > evalThresholdCp)]]
    IN SelectSeq(marked, LAMBDA am : am.strongMove \/ am.inputMove)

pruneWeakMoves(analysisMoves, evalThresholdCp) ==
    LET marked == [i \in 1..Len(analysisMoves) |->
                     [analysisMoves[i] EXCEPT
                        !.strongMove = (analysisMoves[i].evalCp >= evalThresholdCp)]]
    IN SelectSeq(marked, LAMBDA am : am.strongMove \/ am.inputMove)

\* node.has_variation(move) compares Move objects, not SAN
HasVariation(variations, move) == \E i \in 1..Len(variations) : variations[i] = move

filterOutVariations(analysisMoves, variations) ==
    SelectSeq(analysisMoves, LAMBDA am : ~HasVariation(variations, am.move))

\* the lookup dict of filterOutPopularMovesAddFreq: SAN -> games, a later
\* entry of openingStats['moves'] overwriting an earlier one
StatGames(statMove) == statMove.white + statMove.draws + statMove.black
BookSans(statMoves) == {San(statMoves[i].uci) : i \in 1..Len(statMoves)}
LastIndexOf(statMoves, san) ==
    CHOOSE i \in 1..Len(statMoves) :
        /\ San(statMoves[i].uci) = san
        /\ \A j \in 1..Len(statMoves) : San(statMoves[j].uci) = san => j <= i
uciStrToNumGames(statMoves) ==
    [san \in BookSans(statMoves) |-> StatGames(statMoves[LastIndexOf(statMoves, san)])]

\* mutant: a count equal to the threshold counts as popular
ClassifyPopularityExclusive(am, book, thresholdScaled, totalGames) ==
    LET normalizedEngineMove == San(am.move)
    IN IF normalizedEngineMove \in DOMAIN book
       THEN LET unpop == (book[normalizedEngineMove] * FreqDen < thresholdScaled)
            IN IF unpop \/ am.inputMove
               THEN [am EXCEPT !.unpopularMove = unpop,
                               !.freq = [num |-> book[normalizedEngineMove], den |-> totalGames],
                               !.novelty = FALSE]
               ELSE [am EXCEPT !.unpopularMove = unpop]
       ELSE [am EXCEPT !.freq = ZeroFreq, !.novelty = TRUE, !.unpopularMove = TRUE]

\* mutant: a move that is not in the book is not marked as a novelty
ClassifyPopularityNoNovelty(am, book, thresholdScaled, totalGames) ==
    LET normalizedEngineMove == San(am.move)
    IN IF normalizedEngineMove \in DOMAIN book
       THEN LET unpop == (book[normalizedEngineMove] * FreqDen <= thresholdScaled)
            IN IF unpop \/ am.inputMove
               THEN [am EXCEPT !.unpopularMove = unpop,
                               !.freq = [num |-> book[normalizedEngineMove], den |-> totalGames],
                               !.novelty = FALSE]
               ELSE [am EXCEPT !.unpopularMove = unpop]
       ELSE [am EXCEPT !.freq = ZeroFreq, !.novelty = FALSE, !.unpopularMove = TRUE]

\* gamesThreshold is kept scaled by FreqDen: count <= gamesThreshold is
\* count * FreqDen <= thresholdScaled
ClassifyPopularity(am, book, thresholdScaled, totalGames) ==
    LET normalizedEngineMove == San(am.move)
    IN IF normalizedEngineMove \in DOMAIN book
       THEN LET unpop == (book[normalizedEngineMove] * FreqDen <= thresholdScaled)
            IN IF unpop \/ am.inputMove
               THEN [am EXCEPT !.unpopularMove = unpop,
                               !.freq = [num |-> book[normalizedEngineMove], den |-> totalGames],
                               !.novelty = FALSE]
               ELSE [am EXCEPT !.unpopularMove = unpop]
       ELSE [am EXCEPT !.freq = ZeroFreq, !.novelty = TRUE, !.unpopularMove = TRUE]

PopularityKeeps(am, book) ==
    San(am.move) \in DOMAIN book => (am.unpopularMove \/ am.inputMove)

filterOutPopularMovesAddFreq(analysisMoves, statMoves, thresholdScaled, totalGames) ==
    LET book == uciStrToNumGames(statMoves)
        classified == [i \in 1..Len(analysisMoves) |->
                         ClassifyPopularity(analysisMoves[i], book, thresholdScaled, totalGames)]
    IN SelectSeq(classified, LAMBDA am : PopularityKeeps(am, book))

\* mutant: the smaller of the two values is taken
GamesThresholdMin(totalGames, freqNum, rarityThresholdCount) ==
    IF totalGames * freqNum > rarityThresholdCount * FreqDen
    THEN rarityThresholdCount * FreqDen
    ELSE totalGames * freqNum

\* analyzePosition lines 696-699, scaled by FreqDen
GamesThresholdScaled(totalGames, freqNum, rarityThresholdCount) ==
    IF totalGames * freqNum < rarityThresholdCount * FreqDen
    THEN rarityThresholdCount * FreqDen
    ELSE totalGames * freqNum

\* mutant: every candidate is refined, whatever its node count
DoubleCheckOneAlways(am, refined, doubleCheckNodes) ==
    [am EXCEPT !.move = refined.pv[1], !.nodes = refined.nodes,
               !.evalCp = refined.score, !.pv = refined.pv]

\* one iteration of the loop of engineAnalysisDoubleCheck: refined is info[0]
\* of the restricted search
DoubleCheckOne(am, refined, doubleCheckNodes) ==
    IF am.nodes < doubleCheckNodes
    THEN [am EXCEPT !.move = refined.pv[1], !.nodes = refined.nodes,
                    !.evalCp = refined.score, !.pv = refined.pv]
    ELSE am


\* ------------------------------------------------- output tree (chess.pgn)
\* retTree[id + 1] is the output node id; the root (Game.from_board) is node 0
RootNode == [move |-> None, variations |-> <<>>]
NodeOf(tree, id) == tree[id + 1]
ChildMoves(tree, id) ==
    [i \in 1..Len(NodeOf(tree, id).variations) |-> NodeOf(tree, NodeOf(tree, id).variations[i]).move]
TreeHasVariation(tree, id, move) == HasVariation(ChildMoves(tree, id), move)

\* GameNode.add_variation: always appends a new child
add_variation(tree, id, move) ==
    Append([tree EXCEPT ![id + 1].variations = Append(@, Len(tree))],
           [move |-> move, variations |-> <<>>])

MoveToFront(s, k) == <<s[k]>> \o SubSeq(s, 1, k - 1) \o SubSeq(s, k + 1, Len(s))

\* GameNode.add_main_variation: add_variation, then the new child goes first
add_main_variation(tree, id, move) ==
    LET t == add_variation(tree, id, move)
    IN [t EXCEPT ![id + 1].variations = MoveToFront(@, Len(@))]

\* GameNode.promote_to_main: the first child carrying the move goes first
promote_to_main(tree, id, move) ==
    LET moves == ChildMoves(tree, id)
        k == CHOOSE i \in 1..Len(moves) :
                 moves[i] = move /\ \A j \in 1..(i - 1) : moves[j] # move
    IN [tree EXCEPT ![id + 1].variations = MoveToFront(@, k)]

RECURSIVE MainlineFrom(_, _)
MainlineFrom(tree, id) ==
    IF NodeOf(tree, id).variations = <<>> THEN <<>>
    ELSE LET c == NodeOf(tree, id).variations[1]
         IN <<NodeOf(tree, c).move>> \o MainlineFrom(tree, c)
mainline_moves(tree) == MainlineFrom(tree, 0)

\* ---------------------------------------------------------------- summary
EmptySummary == [surpriseMoves |-> <<>>, bookStats |-> <<>>, analyzedLineStr |-> <<>>]
\* mutant: the number of games is not recorded
addBookStatsDropped(sm, ply, totalGames) == sm

\* surpriseMoves and bookStats are dicts keyed by ply
addBookStats(sm, ply, totalGames) ==
    [sm EXCEPT !.bookStats = (ply :> totalGames) @@ @]
addSurpriseMove(sm, ply, desc) ==
    LET old == IF ply \in DOMAIN sm.surpriseMoves THEN sm.surpriseMoves[ply] ELSE <<>>
    IN [sm EXCEPT !.surpriseMoves = (ply :> Append(old, desc)) @@ @]

\* the loop of analyzePosition lines 749-787 over the final candidates
RECURSIVE EmitLoop(_, _, _, _, _)
EmitLoop(tree, sm, id, ply, ams) ==
    IF ams = <<>> THEN [tree |-> tree, summary |-> sm]
    ELSE LET m == Head(ams)
             t2 == add_variation(tree, id, m.move)
             s2 == IF m.unpopularMove /\ m.strongMove
                   THEN addSurpriseMove(sm, ply,
                            [move |-> m.move, freq |-> m.freq,
                             novelty |-> m.novelty, inputMove |-> m.inputMove])
                   ELSE sm
         IN EmitLoop(t2, s2, id, ply, Tail(ams))


\* ================================================================== state
VARIABLES
    options,        \* the parsed command line (processarguments)
    env,            \* what the engine and the opening explorer may answer
    whiteEngine,    \* engine handles of main() / analyzeGame (None: no engine)
    blackEngine,
    game,           \* input game: game[k] = moves of the variations of the
                    \* k-th mainline node, the first one being the mainline
    node,           \* analyzeGame: index in game of the current input node
    retTree,        \* analyzeGame: the output game ret
    retNode,        \* analyzeGame: id of the current output node
    stopAnalysis,   \* analyzeGame: the book cut-off latch
    skip,           \* analyzeGame: skip flag of the current ply
    summary,        \* analyzeGame: AnalysisSummary
    pc,             \* position of analyzeGame / analyzePosition
    openingStats,   \* analyzePosition: answer of the opening explorer
    attempt,        \* getOpeningStats: i
    sleeps,         \* getOpeningStats: the time.sleep calls of this lookup
    info,           \* engineAnalysis: the lines of the engine's answer
    analysisMoves,  \* analyzePosition: the candidate list
    evalThresholdCp,\* analyzePosition: threshold returned by engineAnalysis
    prevMoves,      \* the candidate list the last stage started from
    dcIdx,          \* engineAnalysisDoubleCheck: index of the loop
    engineCalls,    \* plies at which engine.analyse was called
    bookCalls,      \* plies at which get_masters_games was called
    mpc,            \* position of main() / initializeEngines
    slot,           \* initializeEngines: which option is being handled
    initWhite,      \* initializeEngines: local whiteEngine
    initBlack,      \* initializeEngines: local blackEngine
    procs,          \* engine processes: procs[h] in {"open", "closed", "closeFailed"}
    gamesLeft,      \* main(): games still to be read from the input files
    num,            \* main(): number of the game being analysed
    exc             \* main(): the exception that left the try block

walkVars == <<game, node, retTree, retNode, stopAnalysis, skip, summary, pc,
              openingStats, attempt, sleeps, info, analysisMoves, evalThresholdCp,
              prevMoves, dcIdx, engineCalls, bookCalls>>
mainVars == <<mpc, slot, initWhite, initBlack, procs, gamesLeft, num, exc>>
vars == <<options, env, whiteEngine, blackEngine, game, node, retTree, retNode,
          stopAnalysis, skip, summary, pc, openingStats, attempt, sleeps, info,
          analysisMoves, evalThresholdCp, prevMoves, dcIdx, engineCalls,
          bookCalls, mpc, slot, initWhite, initBlack, procs, gamesLeft, num, exc>>

\* ---------------------------------------------------- derived quantities
curPly == node - 1
\* curBoard.fullmove_number and node.turn() of a game from the start position
FullMoveNumber(ply) == (ply \div 2) + 1
WhiteToMove(ply) == ply % 2 = 0
CurEngine == IF WhiteToMove(curPly) THEN whiteEngine ELSE blackEngine
NodeVariations == game[node]
totalGames == openingStats.white + openingStats.draws + openingStats.black
gamesThreshold ==
    GamesThresholdScaled(totalGames, options.rarityThresholdFreq, options.rarityThresholdCount)

NoStats == [white |-> 0, draws |-> 0, black |-> 0, moves |-> <<>>]

\* --------------------------------------------- answers of the environment
StatMoves == [uci : UciMoves, white : env.counts, draws : {0}, black : {0}]
DistinctSan(statMoves) ==
    \A i, j \in 1..Len(statMoves) : i # j => San(statMoves[i].uci) # San(statMoves[j].uci)
OpeningStatsAnswers ==
    {[white |-> t.white, draws |-> t.draws, black |-> t.black, moves |-> ms] :
        t \in env.totals,
        ms \in {x \in SeqsUpTo(StatMoves, env.bookMoves) : DistinctSan(x)}}

GoodLines == [score : env.scores, nodes : env.nodes, pv : {<<m>> : m \in env.moves}]
\* lines that engineAnalysis skips: no score, or an empty pv
BadLines == IF env.badLines
            THEN {[score |-> NoScore, nodes |-> 0, pv |-> <<m>>] : m \in env.moves}
                 \cup {[score |-> 9000, nodes |-> 0, pv |-> <<>>]}
            ELSE {}
DistinctFirstMoves(lines) ==
    \A i, j \in 1..Len(lines) :
        (i # j /\ lines[i].pv # <<>> /\ lines[j].pv # <<>>) => lines[i].pv[1] # lines[j].pv[1]
\* env.ranked: the moves of the position are numbered by the engine's rank,
\* the k-th line reports move k
RankedFirstMoves(lines) ==
    \A i \in 1..Len(lines) : lines[i].pv # <<>> => lines[i].pv[1] = i
\* the lines of one engine.analyse(..., multipv = 100): one line per root move
EngineAnswers ==
    {x \in SeqsUpTo(GoodLines \cup BadLines, env.lines) :
        DistinctFirstMoves(x) /\ (env.ranked => RankedFirstMoves(x))}
\* info[0] of a search restricted with root_moves = [am.move]: its pv starts
\* with the root move, or with one of env.stray
RefinedAnswers(am) ==
    [score : env.refinedScores, nodes : env.refinedNodes,
     pv : {<<m>> : m \in {am.move} \cup env.stray}]

\* ------------------------------------------------------------ analyzeGame
\* mutant: the latch is not consulted
SkipPlyNoLatch(stop, ply) == FullMoveNumber(ply) < options.firstMove

\* mutant: firstMove is not consulted
SkipPlyNoFirstMove(stop, ply) == stop

\* lines 837-846: skip = stopAnalysis, or the move number is below firstMove
SkipPly(stop, ply) == stop \/ FullMoveNumber(ply) < options.firstMove

\* top of the while loop, lines 835-853
LoopTop ==
    /\ pc = "loop"
    /\ skip' = SkipPly(stopAnalysis, curPly)
    /\ IF ~skip' /\ CurEngine # None
       THEN pc' = "stats" /\ attempt' = 0 /\ sleeps' = <<>>
       ELSE pc' = "advance" /\ UNCHANGED <<attempt, sleeps>>
    /\ UNCHANGED <<options, env, whiteEngine, blackEngine, game, node, retTree,
                   retNode, stopAnalysis, summary, openingStats, analysisMoves,
                   evalThresholdCp, info, prevMoves, dcIdx, engineCalls, bookCalls>>
    /\ UNCHANGED mainVars

\* getOpeningStats: one pass of the loop with a successful query
StatsOk ==
    /\ pc = "stats"
    /\ \E os \in OpeningStatsAnswers : openingStats' = os
    /\ attempt' = attempt + 1
    /\ bookCalls' = bookCalls \cup {curPly}
    /\ pc' = "cutoff"
    /\ UNCHANGED <<options, env, whiteEngine, blackEngine, game, node, retTree,
                   retNode, stopAnalysis, skip, summary, sleeps, analysisMoves,
                   evalThresholdCp, info, prevMoves, dcIdx, engineCalls>>
    /\ UNCHANGED mainVars

\* mutant: one retry too many
ShouldRetryOnceMore(i) == i <= MaxAttempts

\* getOpeningStats lines 671-672
ShouldRetry(i) == i < MaxAttempts
SleepSecs(i) == SleepBase + i * SleepStep

\* getOpeningStats: one pass of the loop ending in berserk ApiError
StatsApiError ==
    /\ pc = "stats"
    /\ attempt' = attempt + 1
    /\ bookCalls' = bookCalls \cup {curPly}
    /\ IF ShouldRetry(attempt')
       THEN sleeps' = Append(sleeps, SleepSecs(attempt')) /\ pc' = "stats" /\ exc' = exc
       ELSE sleeps' = sleeps /\ pc' = "raised" /\ exc' = "ApiError"
    /\ UNCHANGED <<options, env, whiteEngine, blackEngine, game, node, retTree,
                   retNode, stopAnalysis, skip, summary, openingStats,
                   analysisMoves, evalThresholdCp, info, prevMoves, dcIdx, engineCalls>>
    /\ UNCHANGED <<mpc, slot, initWhite, initBlack, procs, gamesLeft, num>>

\* getOpeningStats: any other exception is not caught
StatsOtherError ==
    /\ pc = "stats"
    /\ attempt' = attempt + 1
    /\ bookCalls' = bookCalls \cup {curPly}
    /\ pc' = "raised"
    /\ exc' = "Error"
    /\ UNCHANGED <<options, env, whiteEngine, blackEngine, game, node, retTree,
                   retNode, stopAnalysis, skip, summary, openingStats, sleeps,
                   analysisMoves, evalThresholdCp, info, prevMoves, dcIdx, engineCalls>>
    /\ UNCHANGED <<mpc, slot, initWhite, initBlack, procs, gamesLeft, num>>

\* analyzePosition lines 704-707 and the assignment of line 854; the locals
\* of getOpeningStats have ended with its return
BookCutoff ==
    /\ pc = "cutoff"
    /\ IF totalGames < options.bookCutoff
       THEN stopAnalysis' = TRUE /\ pc' = "advance" /\ openingStats' = NoStats
       ELSE stopAnalysis' = stopAnalysis /\ pc' = "engine"
            /\ openingStats' = openingStats
    /\ attempt' = 0
    /\ sleeps' = <<>>
    /\ UNCHANGED <<options, env, whiteEngine, blackEngine, game, node, retTree,
                   retNode, skip, summary, analysisMoves, evalThresholdCp, info,
                   prevMoves, dcIdx, engineCalls, bookCalls>>
    /\ UNCHANGED mainVars

\* stage 1, line 709
EngineAnalysis ==
    /\ pc = "engine"
    /\ \E answer \in EngineAnswers :
          LET r == engineAnalysis(answer, options.evalThresholdCp)
          IN /\ info' = answer
             /\ analysisMoves' = r.moves
             /\ evalThresholdCp' = r.threshold
    /\ prevMoves' = <<>>
    /\ engineCalls' = engineCalls \cup {curPly}
    /\ pc' = "merge"
    /\ UNCHANGED <<options, env, whiteEngine, blackEngine, game, node, retTree,
                   retNode, stopAnalysis, skip, summary, openingStats, attempt,
                   sleeps, dcIdx, bookCalls>>
    /\ UNCHANGED mainVars


\* stage 2, lines 711-712
MergeInputMoves ==
    /\ pc = "merge"
    /\ prevMoves' = analysisMoves
    /\ analysisMoves' = IF options.includeInput
                        THEN forceAddInputMoves(analysisMoves, NodeVariations)
                        ELSE analysisMoves
    /\ pc' = "prune1"
    /\ UNCHANGED <<options, env, whiteEngine, blackEngine, game, node, retTree,
                   retNode, stopAnalysis, skip, summary, openingStats, attempt,
                   sleeps, evalThresholdCp, info, dcIdx, engineCalls, bookCalls>>
    /\ UNCHANGED mainVars

\* stage 3, lines 715-717
InitialThreshold == evalThresholdCp - options.initialEvalMarginCp
InitialPrune ==
    /\ pc = "prune1"
    /\ prevMoves' = analysisMoves
    /\ analysisMoves' = pruneWeakMoves(analysisMoves, InitialThreshold)
    /\ pc' = "exclude"
    /\ UNCHANGED <<options, env, whiteEngine, blackEngine, game, node, retTree,
                   retNode, stopAnalysis, skip, summary, openingStats, attempt,
                   sleeps, evalThresholdCp, info, dcIdx, engineCalls, bookCalls>>
    /\ UNCHANGED mainVars

\* stage 4, lines 724-725
ExcludeVariations ==
    /\ pc = "exclude"
    /\ prevMoves' = analysisMoves
    /\ analysisMoves' = IF ~options.includeInput
                        THEN filterOutVariations(analysisMoves, NodeVariations)
                        ELSE analysisMoves
    /\ pc' = "popular"
    /\ UNCHANGED <<options, env, whiteEngine, blackEngine, game, node, retTree,
                   retNode, stopAnalysis, skip, summary, openingStats, attempt,
                   sleeps, evalThresholdCp, info, dcIdx, engineCalls, bookCalls>>
    /\ UNCHANGED mainVars

\* stage 5, lines 727-731
PopularityFilter ==
    /\ pc = "popular"
    /\ summary' = addBookStats(summary, curPly, totalGames)
    /\ prevMoves' = analysisMoves
    /\ analysisMoves' = filterOutPopularMovesAddFreq(
                            analysisMoves, openingStats.moves, gamesThreshold, totalGames)
    /\ dcIdx' = 1
    /\ pc' = "dcheck"
    /\ UNCHANGED <<options, env, whiteEngine, blackEngine, game, node, retTree,
                   retNode, stopAnalysis, skip, openingStats, attempt, sleeps,
                   evalThresholdCp, info, engineCalls, bookCalls>>
    /\ UNCHANGED mainVars

\* stage 6, one pass of the loop of engineAnalysisDoubleCheck (lines 502-519)
DoubleCheckStep ==
    /\ pc = "dcheck"
    /\ dcIdx <= Len(analysisMoves)
    /\ IF dcIdx = 1 THEN prevMoves' = analysisMoves ELSE prevMoves' = prevMoves
    /\ \E refined \in RefinedAnswers(analysisMoves[dcIdx]) :
          analysisMoves' = [analysisMoves EXCEPT
              ![dcIdx] = DoubleCheckOne(@, refined, options.doubleCheckNodes)]
    /\ engineCalls' = engineCalls \cup {curPly}
    /\ dcIdx' = dcIdx + 1
    /\ UNCHANGED <<options, env, whiteEngine, blackEngine, game, node, retTree,
                   retNode, stopAnalysis, skip, summary, pc, openingStats,
                   attempt, sleeps, evalThresholdCp, info, bookCalls>>
    /\ UNCHANGED mainVars

\* engineAnalysisDoubleCheck returns (line 521)
DoubleCheckDone ==
    /\ pc = "dcheck"
    /\ dcIdx > Len(analysisMoves)
    /\ IF Len(analysisMoves) = 0 THEN prevMoves' = analysisMoves ELSE prevMoves' = prevMoves
    /\ pc' = "prune2"
    /\ UNCHANGED <<options, env, whiteEngine, blackEngine, game, node, retTree,
                   retNode, stopAnalysis, skip, summary, openingStats, attempt,
                   sleeps, analysisMoves, evalThresholdCp, info, dcIdx, engineCalls,
                   bookCalls>>
    /\ UNCHANGED mainVars

\* mutant: the final prune uses the threshold of the initial prune
FinalPruneWithMargin ==
    /\ pc = "prune2"
    /\ prevMoves' = analysisMoves
    /\ analysisMoves' = pruneWeakMoves(analysisMoves, InitialThreshold)
    /\ pc' = "emit"
    /\ UNCHANGED <<options, env, whiteEngine, blackEngine, game, node, retTree,
                   retNode, stopAnalysis, skip, summary, openingStats, attempt,
                   sleeps, evalThresholdCp, info, dcIdx, engineCalls, bookCalls>>
    /\ UNCHANGED mainVars

\* stage 7, line 739
FinalPrune ==
    /\ pc = "prune2"
    /\ prevMoves' = analysisMoves
    /\ analysisMoves' = pruneWeakMoves(analysisMoves, evalThresholdCp)
    /\ pc' = "emit"
    /\ UNCHANGED <<options, env, whiteEngine, blackEngine, game, node, retTree,
                   retNode, stopAnalysis, skip, summary, openingStats, attempt,
                   sleeps, evalThresholdCp, info, dcIdx, engineCalls, bookCalls>>
    /\ UNCHANGED mainVars

\* lines 749-802: the variations and the summary entries; analyzePosition
\* returns True, so line 854 assigns stopAnalysis = False, and the locals of
\* the call end with it
EmitVariations ==
    /\ pc = "emit"
    /\ LET r == EmitLoop(retTree, summary, retNode, curPly, analysisMoves)
       IN retTree' = r.tree /\ summary' = r.summary
    /\ stopAnalysis' = FALSE
    /\ pc' = "advance"
    /\ openingStats' = NoStats
    /\ info' = <<>>
    /\ analysisMoves' = <<>>
    /\ prevMoves' = <<>>
    /\ evalThresholdCp' = 0
    /\ dcIdx' = 1
    /\ UNCHANGED <<options, env, whiteEngine, blackEngine, game, node, retNode,
                   skip, attempt, sleeps, engineCalls, bookCalls>>
    /\ UNCHANGED mainVars

\* mutant: the mainline move is always added as a new variation
AdvanceTreeNoPromote(tree, id, move) == add_main_variation(tree, id, move)

\* lines 864-875: next mainline move
AdvanceTree(tree, id, move) ==
    IF TreeHasVariation(tree, id, move)
    THEN promote_to_main(tree, id, move)
    ELSE add_main_variation(tree, id, move)
AdvanceCursor(tree, id) == NodeOf(tree, id).variations[1]

Advance ==
    /\ pc = "advance"
    /\ Len(NodeVariations) > 0
    /\ node' = node + 1
    /\ retTree' = AdvanceTree(retTree, retNode, NodeVariations[1])
    /\ retNode' = AdvanceCursor(retTree', retNode)
    /\ summary' = IF ~skip
                  THEN [summary EXCEPT !.analyzedLineStr = mainline_moves(retTree')]
                  ELSE summary
    /\ pc' = "loop"
    /\ UNCHANGED <<options, env, whiteEngine, blackEngine, game, stopAnalysis,
                   skip, openingStats, attempt, sleeps, analysisMoves,
                   evalThresholdCp, info, prevMoves, dcIdx, engineCalls, bookCalls>>
    /\ UNCHANGED mainVars

\* lines 876-878: no further mainline move
WalkDone ==
    /\ pc = "advance"
    /\ Len(NodeVariations) = 0
    /\ pc' = "done"
    /\ UNCHANGED <<options, env, whiteEngine, blackEngine, game, node, retTree,
                   retNode, stopAnalysis, skip, summary, openingStats, attempt,
                   sleeps, analysisMoves, evalThresholdCp, info, prevMoves, dcIdx,
                   engineCalls, bookCalls>>
    /\ UNCHANGED mainVars

\* --------------------------------------------------------- initial states
DefaultOptions ==
    [includeInput |-> FALSE, firstMove |-> 1, bookCutoff |-> BookCutoffDefault,
     evalThresholdCp |-> EvalThresholdCpDefault,
     initialEvalMarginCp |-> InitialEvalMarginCpDefault,
     rarityThresholdFreq |-> 1, rarityThresholdCount |-> 0,
     doubleCheckNodes |-> DoubleCheckNodesDefault,
     engine |-> "", whiteEngine |-> "", blackEngine |-> ""]

Totals(S) == {[white |-> w, draws |-> 0, black |-> 0] : w \in S}

\* state of analyzeGame after lines 808-832
WalkStart ==
    /\ node = 1
    /\ retTree = <<RootNode>>
    /\ retNode = 0
    /\ stopAnalysis = FALSE
    /\ skip = FALSE
    /\ summary = EmptySummary
    /\ pc = "loop"
    /\ openingStats = NoStats
    /\ attempt = 0
    /\ sleeps = <<>>
    /\ info = <<>>
    /\ analysisMoves = <<>>
    /\ evalThresholdCp = 0
    /\ prevMoves = <<>>
    /\ dcIdx = 1
    /\ engineCalls = {}
    /\ bookCalls = {}

MainIdle ==
    /\ mpc = "idle"
    /\ slot = 1
    /\ initWhite = None
    /\ initBlack = None
    /\ procs = <<>>
    /\ gamesLeft = 0
    /\ num = 0
    /\ exc = ""

\* a mainline of up to MaxPlies moves; the mainline move of a position is
\* its move 1, and the engine of the walk reports the mainline move or move 2
WalkMoves == {1, 2}
WalkGames == {[k \in 1..(n + 1) |-> IF k <= n THEN <<1>> ELSE <<>>] : n \in 0..MaxPlies}

Init ==
    /\ options \in {[DefaultOptions EXCEPT !.includeInput = ii, !.firstMove = fm] :
                       ii \in BOOLEAN, fm \in {1, 2}}
    /\ env = [moves |-> WalkMoves, ranked |-> FALSE, stray |-> WalkMoves,
              lines |-> WalkLines, scores |-> {9000}, nodes |-> NodeCounts,
              refinedNodes |-> {10000}, refinedScores |-> {9000},
              totals |-> Totals({1, 2}), bookMoves |-> 0, counts |-> {},
              badLines |-> FALSE]
    /\ \E e \in {<<1, 2>>, <<1, None>>, <<None, 2>>} :
          whiteEngine = e[1] /\ blackEngine = e[2]
    /\ game \in WalkGames
    /\ WalkStart
    /\ MainIdle

\* one analysed position: input node with up to MaxVariations variations
PosGames ==
    {<< <<>> >>} \cup
    {<<v, <<>> >> : v \in {x \in SeqsUpTo(Moves, MaxVariations) : Len(x) > 0 /\ Distinct(x)}}

InitPos ==
    /\ options \in {[DefaultOptions EXCEPT !.includeInput = ii] : ii \in BOOLEAN}
    /\ env = [moves |-> Moves, ranked |-> TRUE, stray |-> {1, 2},
              lines |-> MaxLines, scores |-> Scores, nodes |-> NodeCounts,
              refinedNodes |-> {10000}, refinedScores |-> RefinedScores,
              totals |-> Totals({1, 2}), bookMoves |-> 0, counts |-> {},
              badLines |-> TRUE]
    /\ whiteEngine = 1
    /\ blackEngine = None
    /\ game \in PosGames
    /\ WalkStart
    /\ MainIdle

\* one analysed position with a varying book and varying rarity options
BookGames == {<< <<>> >>, << <<1>>, <<>> >>}

InitBook ==
    /\ options \in {[DefaultOptions EXCEPT !.includeInput = ii,
                                          !.rarityThresholdFreq = f,
                                          !.rarityThresholdCount = c] :
                       ii \in BOOLEAN, f \in FreqNums, c \in {0, 5}}
    /\ env = [moves |-> Moves, ranked |-> FALSE, stray |-> {},
              lines |-> 1, scores |-> {9000}, nodes |-> {10000},
              refinedNodes |-> {10000}, refinedScores |-> {9000},
              totals |-> Totals({2, 40}), bookMoves |-> MaxBookMoves,
              counts |-> 0..MaxGameCount,
              badLines |-> FALSE]
    /\ whiteEngine = 1
    /\ blackEngine = None
    /\ game \in BookGames
    /\ WalkStart
    /\ MainIdle

\* the position after one move, analysed by the black engine: three engine
\* lines A = move 1, B = move 2, C = move 3 with scores out of 9000, 8850 and
\* 8400, a book of 40 games whose moves were played 1 or 30 times, and
\* restricted searches that answer 8700 or 9000
ScenarioScores == {8400, 8850, 9000}
ScenarioRefined == {8700, 9000}
InitScenario ==
    /\ options = DefaultOptions
    /\ env = [moves |-> 1..3, ranked |-> TRUE, stray |-> {},
              lines |-> 3, scores |-> ScenarioScores, nodes |-> {5000},
              refinedNodes |-> {10000}, refinedScores |-> ScenarioRefined,
              totals |-> Totals({40}), bookMoves |-> 2, counts |-> {1, 30},
              badLines |-> FALSE]
    /\ whiteEngine = None
    /\ blackEngine = 2
    /\ game = << <<1>>, <<>> >>
    /\ WalkStart
    /\ MainIdle

Next ==
    \/ LoopTop
    \/ StatsOk
    \/ StatsApiError
    \/ StatsOtherError
    \/ BookCutoff
    \/ EngineAnalysis
    \/ MergeInputMoves
    \/ InitialPrune
    \/ ExcludeVariations
    \/ PopularityFilter
    \/ DoubleCheckStep
    \/ DoubleCheckDone
    \/ FinalPrune
    \/ EmitVariations
    \/ Advance
    \/ WalkDone

Spec == Init /\ [][Next]_vars
SpecPos == InitPos /\ [][Next]_vars
SpecBook == InitBook /\ [][Next]_vars
SpecScenario == InitScenario /\ [][Next]_vars


\* ================================================================= main()
\* engines.json: the keys are full paths; two of them share a basename
EngineConfigs == {"/a/sf", "/a/lc0", "/b/lc0"}
\* Path(i).name
PathName(i) == CASE i = "/a/sf" -> "sf"
                 [] i = "/a/lc0" -> "lc0"
                 [] i = "/b/lc0" -> "lc0"
                 [] OTHER -> i
EngineNames == {"sf", "/a/sf", "lc0", "x"}

\* mutant: an ambiguous basename resolves to one of its matches
getEngineConfFirstMatch(engineConfigs, engineName) ==
    IF engineName \in engineConfigs
    THEN [kind |-> "conf", fullName |-> engineName]
    ELSE LET matches == {i \in engineConfigs : engineName = PathName(i)}
         IN IF matches = {} THEN [kind |-> "KeyError", fullName |-> ""]
            ELSE [kind |-> "pair", fullName |-> CHOOSE i \in matches : TRUE]

\* getEngineConf: an exact key returns the configuration alone (line 296),
\* a basename returns the pair (fullName, conf) (line 311)
getEngineConf(engineConfigs, engineName) ==
    IF engineName \in engineConfigs
    THEN [kind |-> "conf", fullName |-> engineName]
    ELSE LET matches == {i \in engineConfigs : engineName = PathName(i)}
         IN IF Cardinality(matches) > 1 THEN [kind |-> "KeyError", fullName |-> ""]
            ELSE IF matches = {} THEN [kind |-> "KeyError", fullName |-> ""]
            ELSE [kind |-> "pair", fullName |-> CHOOSE i \in matches : TRUE]

SlotName(k) == CASE k = 1 -> options.engine
                 [] k = 2 -> options.whiteEngine
                 [] k = 3 -> options.blackEngine
                 [] OTHER -> ""

\* closeSingleEngine: a failing engine.close() is caught, but the handler's
\* sys.stderr.write(sys.exception()) raises in its turn
closeSingleEngine(ps, h, fails) ==
    IF h = None THEN [procs |-> ps, raised |-> FALSE]
    ELSE IF ps[h] = "closed" THEN [procs |-> ps, raised |-> FALSE]
    ELSE IF fails THEN [procs |-> [ps EXCEPT ![h] = "closeFailed"], raised |-> TRUE]
    ELSE [procs |-> [ps EXCEPT ![h] = "closed"], raised |-> FALSE]

\* closeEngines(whiteEngine, blackEngine)
closeEngines(ps, w, b, failW, failB) ==
    LET r1 == closeSingleEngine(ps, w, failW)
    IN IF r1.raised THEN r1
       ELSE IF b # None /\ b # w THEN closeSingleEngine(r1.procs, b, failB)
       ELSE r1

UnchangedWalk == UNCHANGED <<options, env>> /\ UNCHANGED walkVars

\* main() line 919: enter initializeEngines
MainStart ==
    /\ mpc = "start"
    /\ mpc' = "init"
    /\ slot' = 1
    /\ UNCHANGED <<whiteEngine, blackEngine, initWhite, initBlack, procs, gamesLeft, num, exc>>
    /\ UnchangedWalk

\* initializeEngines: the option of this slot is not given
SkipSlot ==
    /\ mpc = "init"
    /\ slot <= 3
    /\ SlotName(slot) = ""
    /\ slot' = slot + 1
    /\ UNCHANGED <<whiteEngine, blackEngine, mpc, initWhite, initBlack, procs, gamesLeft, num, exc>>
    /\ UnchangedWalk

\* initializeEngines lines 323-334 for one option: getEngineConf, then
\* initializeSingleEngine (popen_uci, configure, ping)
InitSlot ==
    /\ mpc = "init"
    /\ slot <= 3
    /\ SlotName(slot) # ""
    /\ LET r == getEngineConf(EngineConfigs, SlotName(slot))
           h == Len(procs) + 1
       IN IF r.kind = "KeyError"
          THEN /\ exc' = "KeyError" /\ mpc' = "except"
               /\ UNCHANGED <<slot, initWhite, initBlack, procs>>
          ELSE IF r.kind = "conf"
          THEN \* fullPath, conf = <dict>: the unpacking or conf['args'] fails
               /\ exc' = "TypeError" /\ mpc' = "except"
               /\ UNCHANGED <<slot, initWhite, initBlack, procs>>
          ELSE \E outcome \in {"ok", "spawnFails", "configureFails"}, closeFails \in BOOLEAN :
               CASE outcome = "ok" ->
                      /\ procs' = Append(procs, "open")
                      /\ initWhite' = IF slot \in {1, 2} THEN h ELSE initWhite
                      /\ initBlack' = IF slot \in {1, 3} THEN h ELSE initBlack
                      /\ slot' = slot + 1
                      /\ UNCHANGED <<mpc, exc>>
                 [] outcome = "spawnFails" ->
                      /\ ~closeFails
                      /\ exc' = "EngineError" /\ mpc' = "except"
                      /\ UNCHANGED <<slot, initWhite, initBlack, procs>>
                 [] outcome = "configureFails" ->
                      /\ procs' = closeSingleEngine(Append(procs, "open"), h, closeFails).procs
                      /\ exc' = "EngineError" /\ mpc' = "except"
                      /\ UNCHANGED <<slot, initWhite, initBlack>>
    /\ UNCHANGED <<whiteEngine, blackEngine, gamesLeft, num>>
    /\ UnchangedWalk

\* initializeEngines returns (line 336), main() assigns the pair (line 919)
InitReturn ==
    /\ mpc = "init"
    /\ slot > 3
    /\ whiteEngine' = initWhite
    /\ blackEngine' = initBlack
    /\ mpc' = "games"
    /\ UNCHANGED <<slot, initWhite, initBlack, procs, gamesLeft, num, exc>>
    /\ UnchangedWalk

\* main() lines 921-930: one game is read and analysed; analyzeGame keeps
\* its state in locals, so main() only sees it return or raise
GameOk ==
    /\ mpc = "games"
    /\ gamesLeft > 0
    /\ gamesLeft' = gamesLeft - 1
    /\ num' = num + 1
    /\ UNCHANGED <<whiteEngine, blackEngine, mpc, slot, initWhite, initBlack, procs, exc>>
    /\ UnchangedWalk

GameRaises ==
    /\ mpc = "games"
    /\ gamesLeft > 0
    /\ num' = num + 1
    /\ exc' = "GameError"
    /\ mpc' = "except"
    /\ UNCHANGED <<whiteEngine, blackEngine, slot, initWhite, initBlack, procs, gamesLeft>>
    /\ UnchangedWalk

\* main() line 932: closeEngines inside the try block
CloseAfterGames ==
    /\ mpc = "games"
    /\ gamesLeft = 0
    /\ \E failW, failB \in BOOLEAN :
          LET r == closeEngines(procs, whiteEngine, blackEngine, failW, failB)
          IN /\ procs' = r.procs
             /\ IF r.raised THEN mpc' = "except" /\ exc' = "CloseError"
                ELSE mpc' = "exit" /\ exc' = exc
    /\ UNCHANGED <<whiteEngine, blackEngine, slot, initWhite, initBlack, gamesLeft, num>>
    /\ UnchangedWalk

\* main() lines 934-936: the handler closes the engines main() knows of
ExceptHandler ==
    /\ mpc = "except"
    /\ \E failW, failB \in BOOLEAN :
          LET r == closeEngines(procs, whiteEngine, blackEngine, failW, failB)
          IN /\ procs' = r.procs
             /\ mpc' = IF r.raised THEN "crash" ELSE "exit"
    /\ UNCHANGED <<whiteEngine, blackEngine, slot, initWhite, initBlack, gamesLeft, num, exc>>
    /\ UnchangedWalk

\* processarguments lines 202-212: --engine excludes the other two, and at
\* least one engine option is given
EngineOptionSets ==
    ({[DefaultOptions EXCEPT !.engine = e] : e \in EngineNames} \cup
     {[DefaultOptions EXCEPT !.whiteEngine = w, !.blackEngine = b] :
         w \in EngineNames \cup {""}, b \in EngineNames \cup {""}}) \ {DefaultOptions}

InitMain ==
    /\ options \in EngineOptionSets
    /\ env = [moves |-> {}, ranked |-> FALSE, stray |-> {}, lines |-> 0,
              scores |-> {}, nodes |-> {}, refinedNodes |-> {},
              refinedScores |-> {}, totals |-> {}, bookMoves |-> 0, counts |-> {},
              badLines |-> FALSE]
    /\ whiteEngine = None
    /\ blackEngine = None
    /\ game = << <<>> >>
    /\ WalkStart
    /\ mpc = "start"
    /\ slot = 1
    /\ initWhite = None
    /\ initBlack = None
    /\ procs = <<>>
    /\ gamesLeft \in 0..MaxRunGames
    /\ num = 0
    /\ exc = ""

NextMain ==
    \/ MainStart
    \/ SkipSlot
    \/ InitSlot
    \/ InitReturn
    \/ GameOk
    \/ GameRaises
    \/ CloseAfterGames
    \/ ExceptHandler

SpecMain == InitMain /\ [][NextMain]_vars


\* ================================================================= claims

\* C1: once the book cut-off has set the latch, it stays set and no later
\* step of the game calls the engine or the opening explorer.
C1_LatchIsPermanent ==
    [][stopAnalysis =>
          /\ stopAnalysis'
          /\ engineCalls' = engineCalls
          /\ bookCalls' = bookCalls]_vars

\* a ply after the cut-off ply has been walked without any call
C1_Witness ==
    /\ stopAnalysis
    /\ pc = "advance"
    /\ skip
    /\ curPly \notin bookCalls
    /\ curPly \notin engineCalls
    /\ \E p \in bookCalls : p < curPly /\ p \notin engineCalls

\* C7: getOpeningStats makes at most 3 attempts, sleeps 3 s after the first
\* and 5 s after the second ApiError, raises after the third, and returns at
\* once on success.
C7_RetryPolicy ==
    /\ attempt \in 0..3
    /\ Len(sleeps) <= 2
    /\ \A k \in 1..Len(sleeps) : sleeps[k] = IF k = 1 THEN 3 ELSE 5
    /\ pc = "stats" => Len(sleeps) = attempt
    /\ pc = "cutoff" => attempt = Len(sleeps) + 1
    /\ (pc = "raised" /\ exc = "ApiError") => (attempt = 3 /\ sleeps = <<3, 5>>)

C7_Witness == pc = "raised" /\ exc = "ApiError" /\ attempt = 3

IsPrefix(p, q) == Len(p) <= Len(q) /\ SubSeq(q, 1, Len(p)) = p
CountMove(moves, m) == Cardinality({i \in 1..Len(moves) : moves[i] = m})
InputMainline == [k \in 1..(Len(game) - 1) |-> game[k][1]]

\* C8 as stated: at the end of the walk the mainline of the output tree
\* equals the mainline of the input tree.
C8_MainlineEqualsInput ==
    pc = "done" => mainline_moves(retTree) = InputMainline

\* the step of C8: what lines 864-872 do to the output tree and its cursor
C8_AdvanceStep ==
    LET m == NodeVariations[1]
        before == ChildMoves(retTree, retNode)
        after == ChildMoves(retTree', retNode)
        kids == NodeOf(retTree', retNode).variations
    IN /\ Len(kids) > 0
       /\ retNode' = kids[1]
       /\ NodeOf(retTree', retNode').move = m
       /\ IF CountMove(before, m) > 0
          THEN /\ Len(retTree') = Len(retTree)
               /\ Range(kids) = Range(NodeOf(retTree, retNode).variations)
               /\ CountMove(after, m) = CountMove(before, m)
          ELSE /\ Len(retTree') = Len(retTree) + 1
               /\ retNode' = Len(retTree)
               /\ CountMove(after, m) = 1
       /\ \A x \in Moves : x # m => CountMove(after, x) = CountMove(before, x)

\* C8 as amended: advancing one ply moves the output cursor to the first
\* variation of the previous output node, that variation carries the input
\* mainline move, an existing variation for the move is promoted and not
\* duplicated; at the end of the walk the input mainline is a prefix of the
\* output mainline, which is longer exactly when the last position got
\* candidate variations.
C8_MainlineCopied ==
    /\ [][(pc = "advance" /\ pc' = "loop") => C8_AdvanceStep]_vars
    /\ [](pc = "done" =>
            /\ IsPrefix(InputMainline, mainline_moves(retTree))
            /\ (Len(mainline_moves(retTree)) > Len(InputMainline))
                   <=> (NodeOf(retTree, retNode).variations # <<>>))

\* an existing variation has been promoted: the cursor is the first child
\* and is older than a sibling
C8_Witness ==
    /\ pc = "loop"
    /\ node > 1
    /\ \E id \in 0..(Len(retTree) - 1) :
          LET kids == NodeOf(retTree, id).variations
          IN Len(kids) >= 2 /\ kids[1] = retNode /\ retNode < kids[2]


\* ---------------------------------------------------- candidate pipeline
\* the list holds the result of a stage that reads prevMoves
AfterStage == pc \in {"exclude", "popular", "dcheck", "prune2", "emit"}
EngineRanked(ams) == {i \in 1..Len(ams) : ams[i].rank > 0}
PosOfRank(ams, r) == CHOOSE i \in 1..Len(ams) : ams[i].rank = r

\* C2 as stated: any two candidates built from engine lines stand in the
\* order of the engine's answer, at every stage.
C2_EngineOrderKept ==
    \A i, j \in EngineRanked(analysisMoves) :
        i < j => analysisMoves[i].rank < analysisMoves[j].rank

\* C2 as amended: with include-input off the candidates stand in engine-rank
\* order at every stage; with include-input on, the merge puts the candidates
\* of the input moves first and the other engine candidates follow in
\* engine-rank order; every stage after the merge keeps the order of the
\* list it reads.
C2_OrderAmended ==
    /\ \A i, j \in 1..Len(analysisMoves) :
          i < j =>
             /\ (~analysisMoves[i].inputMove /\ ~analysisMoves[j].inputMove)
                   => analysisMoves[i].rank < analysisMoves[j].rank
             /\ analysisMoves[j].inputMove => analysisMoves[i].inputMove
    /\ ~options.includeInput => C2_EngineOrderKept
    /\ AfterStage =>
          \A i, j \in EngineRanked(analysisMoves) :
              i < j => PosOfRank(prevMoves, analysisMoves[i].rank)
                          < PosOfRank(prevMoves, analysisMoves[j].rank)

\* include-input mode, final list: an engine candidate that is an input move
\* stands before a better-ranked engine candidate
C2_Witness ==
    /\ pc = "emit"
    /\ options.includeInput
    /\ \E i, j \in EngineRanked(analysisMoves) :
          /\ i < j
          /\ analysisMoves[i].rank > analysisMoves[j].rank
          /\ analysisMoves[i].inputMove /\ ~analysisMoves[j].inputMove

\* C3: no two candidates of the list carry the same move, at any stage.
C3_OneCandidatePerMove ==
    \A i, j \in 1..Len(analysisMoves) :
        i # j => analysisMoves[i].move # analysisMoves[j].move

\* C4: with include-input off, no variation that analyzePosition added to the
\* output node carries a move of a variation of the input node.
C4_NoInputMoveEmitted ==
    (pc = "advance" /\ ~options.includeInput) =>
        \A m \in Range(ChildMoves(retTree, retNode)) : ~HasVariation(NodeVariations, m)

\* C9: pruneWeakMoves returns exactly the candidates with score >= t and the
\* input moves, in the order of its input, and marks each one strong iff its
\* score >= t; t is topScore - 200 - 300 in the initial and topScore - 200
\* in the final prune, topScore being the score of the engine's first line.
ValidLines == SelectSeq(info, LAMBDA l : l.score # NoScore /\ l.pv # <<>>)
KeptByPrune(ams, t) == {i \in 1..Len(ams) : ams[i].evalCp >= t \/ ams[i].inputMove}
NthOf(S, k) == CHOOSE i \in S : Cardinality({j \in S : j <= i}) = k
PruneResult(in, out, t) ==
    /\ Len(out) = Cardinality(KeptByPrune(in, t))
    /\ \A k \in 1..Len(out) :
          LET c == in[NthOf(KeptByPrune(in, t), k)]
          IN /\ out[k].strongMove = (c.evalCp >= t)
             /\ [out[k] EXCEPT !.strongMove = TRUE] = [c EXCEPT !.strongMove = TRUE]
C9_PruneExact ==
    ValidLines # <<>> =>
       /\ pc = "exclude" => PruneResult(prevMoves, analysisMoves, ValidLines[1].score - 200 - 300)
       /\ pc = "emit" => PruneResult(prevMoves, analysisMoves, ValidLines[1].score - 200)

\* the initial prune has dropped a weak engine candidate and kept, marked
\* weak, an input move that the engine did not report
C9_Witness ==
    /\ pc = "exclude"
    /\ ValidLines # <<>>
    /\ Len(analysisMoves) < Len(prevMoves)
    /\ \E i \in 1..Len(prevMoves) :
          /\ ~prevMoves[i].inputMove
          /\ prevMoves[i].evalCp < ValidLines[1].score - 200 - 300
    /\ \E i \in 1..Len(analysisMoves) :
          analysisMoves[i].inputMove /\ ~analysisMoves[i].strongMove

\* C10: a candidate whose move is in the book is unpopular iff its count is
\* at most gamesThreshold (the boundary included) and is kept iff it is
\* unpopular or an input move.
BookCountOf(m) ==
    LET e == CHOOSE x \in Range(openingStats.moves) : San(x.uci) = San(m)
    IN e.white + e.draws + e.black
InBook(m) == \E x \in Range(openingStats.moves) : San(x.uci) = San(m)
KeptByBook(ams) ==
    {i \in 1..Len(ams) :
        InBook(ams[i].move) =>
           (BookCountOf(ams[i].move) * FreqDen <= gamesThreshold \/ ams[i].inputMove)}
C10_BoundaryInclusive ==
    (pc = "dcheck" /\ dcIdx = 1) =>
       /\ Len(analysisMoves) = Cardinality(KeptByBook(prevMoves))
       /\ \A k \in 1..Len(analysisMoves) :
             LET c == prevMoves[NthOf(KeptByBook(prevMoves), k)]
             IN /\ analysisMoves[k].move = c.move
                /\ analysisMoves[k].rank = c.rank
                /\ InBook(c.move) =>
                      analysisMoves[k].unpopularMove =
                          (BookCountOf(c.move) * FreqDen <= gamesThreshold)

\* a book move played exactly gamesThreshold times is kept as unpopular
C10_Witness ==
    /\ pc = "dcheck" /\ dcIdx = 1
    /\ \E k \in 1..Len(analysisMoves) :
          /\ InBook(analysisMoves[k].move)
          /\ BookCountOf(analysisMoves[k].move) > 0
          /\ BookCountOf(analysisMoves[k].move) * FreqDen = gamesThreshold
          /\ analysisMoves[k].unpopularMove
          /\ ~analysisMoves[k].inputMove
          /\ ~analysisMoves[k].novelty

\* ------------------------------------------------------------ the engines
\* C5: when main() ends, every engine process that was started has been
\* closed.
C5_AllEnginesClosed ==
    mpc \in {"exit", "crash"} => \A h \in 1..Len(procs) : procs[h] # "open"

\* C6 as stated: when getEngineConf raises for a name that does not resolve,
\* no engine process has been started.
C6_NoEngineBeforeNameError ==
    (mpc = "except" /\ exc = "KeyError") => procs = <<>>

\* C6 as amended: an ambiguous or missing name always raises KeyError before
\* the engine of its own option is started; the engines of the options
\* handled before it (--white-engine before --black-engine) are running.
C6_NameErrorBeforeOwnEngine ==
    /\ [][(mpc = "init" /\ slot <= 3 /\ SlotName(slot) \in {"lc0", "x"}) =>
             (mpc' = "except" /\ exc' = "KeyError" /\ procs' = procs)]_vars
    /\ []((mpc = "except" /\ exc = "KeyError") =>
             /\ SlotName(slot) \in {"lc0", "x"}
             /\ Len(procs) = Cardinality({k \in 1..(slot - 1) : SlotName(k) # ""})
             /\ \A h \in 1..Len(procs) : procs[h] = "open")

\* the black engine's ambiguous name raises while the white engine runs
C6_Witness ==
    /\ mpc = "except" /\ exc = "KeyError"
    /\ options.blackEngine = "lc0"
    /\ procs = <<"open">>

\* C11: a candidate whose move is not in the book leaves the popularity stage
\* in the list, marked novelty and unpopular with frequency 0, whatever the
\* threshold and the total are and whether or not it is an input move.
C11_AbsentMoveIsNovelty ==
    (pc = "dcheck" /\ dcIdx = 1) =>
       \A i \in 1..Len(prevMoves) :
          ~InBook(prevMoves[i].move) =>
             \E k \in 1..Len(analysisMoves) :
                /\ analysisMoves[k].move = prevMoves[i].move
                /\ analysisMoves[k].rank = prevMoves[i].rank
                /\ analysisMoves[k].inputMove = prevMoves[i].inputMove
                /\ analysisMoves[k].novelty
                /\ analysisMoves[k].unpopularMove
                /\ analysisMoves[k].freq = ZeroFreq

\* an engine candidate and an input move, both absent from a book that holds
\* other moves, have passed the popularity stage
C11_Witness ==
    /\ pc = "dcheck" /\ dcIdx = 1
    /\ openingStats.moves # <<>>
    /\ \E i, j \in 1..Len(analysisMoves) :
          /\ ~InBook(analysisMoves[i].move) /\ ~analysisMoves[i].inputMove
          /\ ~InBook(analysisMoves[j].move) /\ analysisMoves[j].inputMove
          /\ analysisMoves[i].novelty /\ analysisMoves[j].novelty

\* C12: the threshold handed to the popularity stage is the larger of
\* totalGames * rarityThresholdFreq and rarityThresholdCount (both scaled by
\* FreqDen here); 40 games at frequency 0.05 give 5 with count 5 and 2 with
\* count 0.
C12_ThresholdIsMax ==
    pc = "popular" =>
       LET byFreq == totalGames * options.rarityThresholdFreq
           byCount == options.rarityThresholdCount * FreqDen
       IN /\ gamesThreshold >= byFreq
          /\ gamesThreshold >= byCount
          /\ gamesThreshold \in {byFreq, byCount}
          /\ (totalGames = 40 /\ options.rarityThresholdFreq = 1) =>
                /\ options.rarityThresholdCount = 5 => gamesThreshold = 5 * FreqDen
                /\ options.rarityThresholdCount = 0 => gamesThreshold = 2 * FreqDen

\* 40 games, frequency 0.05 and count 5: the count wins
C12_Witness ==
    /\ pc = "popular"
    /\ totalGames = 40
    /\ options.rarityThresholdFreq = 1
    /\ options.rarityThresholdCount = 5
    /\ gamesThreshold = 5 * FreqDen

\* new is old with move, score, nodes and pv taken from a restricted search
C13_Replaced(old, new) ==
    /\ new.nodes \in env.refinedNodes
    /\ new.evalCp \in env.refinedScores
    /\ new.pv # <<>> /\ new.move = new.pv[1]
    /\ [new EXCEPT !.move = old.move, !.nodes = old.nodes,
                    !.evalCp = old.evalCp, !.pv = old.pv] = old

\* C13: engineAnalysisDoubleCheck keeps the length and the order of the list;
\* a candidate with nodes >= doubleCheckNodes leaves it unchanged; a candidate
\* with fewer nodes gets move, score, nodes and pv of the restricted search
\* and keeps its other fields.
C13_DoubleCheckFrame ==
    ((pc = "dcheck" /\ dcIdx > 1) \/ pc = "prune2") =>
       /\ Len(analysisMoves) = Len(prevMoves)
       /\ \A i \in 1..Len(prevMoves) :
             IF prevMoves[i].nodes >= options.doubleCheckNodes
                \/ (pc = "dcheck" /\ i >= dcIdx)
             THEN analysisMoves[i] = prevMoves[i]
             ELSE C13_Replaced(prevMoves[i], analysisMoves[i])

\* the stage has passed one candidate through and has replaced the move and
\* the score of another one
C13_Witness ==
    /\ pc = "prune2"
    /\ \E i, j \in 1..Len(prevMoves) :
          /\ prevMoves[i].nodes >= options.doubleCheckNodes
          /\ analysisMoves[i] = prevMoves[i]
          /\ prevMoves[j].nodes < options.doubleCheckNodes
          /\ analysisMoves[j].move # prevMoves[j].move
          /\ analysisMoves[j].evalCp # prevMoves[j].evalCp
          /\ analysisMoves[j].nodes >= options.doubleCheckNodes

\* the ply under the cursor has a full-move number below firstMove
BelowFirstMove == FullMoveNumber(curPly) < options.firstMove

\* C14: while the cursor is on a ply whose full-move number is below
\* firstMove, no step calls the engine or the opening explorer or changes the
\* latch, the position is not analysed, and the step that leaves the ply moves
\* both cursors along the mainline move.
C14_FirstMoveSkip ==
    [][BelowFirstMove =>
          /\ stopAnalysis' = stopAnalysis
          /\ engineCalls' = engineCalls
          /\ bookCalls' = bookCalls
          /\ pc' \in {"advance", "loop", "done"}
          /\ (pc = "advance" /\ Len(NodeVariations) > 0) =>
                /\ node' = node + 1
                /\ retNode' = NodeOf(retTree', retNode).variations[1]
                /\ NodeOf(retTree', retNode').move = NodeVariations[1]]_vars

\* firstMove is 2: the two plies of move 1 were walked without a call, and the
\* first ply of move 2 is being analysed
C14_Witness ==
    /\ options.firstMove = 2
    /\ curPly = 2
    /\ pc = "engine"
    /\ bookCalls = {2}
    /\ engineCalls = {}
    /\ ~stopAnalysis
    /\ Len(mainline_moves(retTree)) = 2

\* the scenario of C15: the engine has answered A(9000), B(8850), C(8400), the
\* book holds 40 games, A was played 30 times and B once, and the input node
\* has none of the three moves
ScenarioLine(score, m) == [score |-> score, nodes |-> 5000, pv |-> <<m>>]
InScenario ==
    /\ info = <<ScenarioLine(9000, 1), ScenarioLine(8850, 2), ScenarioLine(8400, 3)>>
    /\ totalGames = 40
    /\ InBook(1) /\ BookCountOf(1) = 30
    /\ InBook(2) /\ BookCountOf(2) = 1
    /\ \A m \in 1..3 : ~HasVariation(NodeVariations, m)
    /\ ~options.includeInput
    /\ options.rarityThresholdFreq = 1 /\ options.rarityThresholdCount = 0
    /\ options.evalThresholdCp = 200 /\ options.initialEvalMarginCp = 300
MovesOf(ams) == [i \in 1..Len(ams) |-> ams[i].move]
BRefinedTo8700 == MovesOf(prevMoves) = <<2>> /\ prevMoves[1].evalCp = 8700

\* C15: in the scenario the initial prune (threshold 8500) keeps A and B and
\* drops C; the popularity stage (gamesThreshold 2) drops A and keeps B as
\* unpopular with frequency 1/40; when the double-check refines B to 8700 the
\* final prune (threshold 8800) drops B, and the position gets no variation
\* and no surprise move.
C15_Scenario ==
    InScenario =>
       /\ pc = "exclude" =>
             /\ InitialThreshold = 8500
             /\ MovesOf(prevMoves) = <<1, 2, 3>>
             /\ MovesOf(analysisMoves) = <<1, 2>>
       /\ (pc = "dcheck" /\ dcIdx = 1) =>
             /\ gamesThreshold = 2 * FreqDen
             /\ MovesOf(analysisMoves) = <<2>>
             /\ analysisMoves[1].unpopularMove
             /\ ~analysisMoves[1].novelty
             /\ analysisMoves[1].freq = [num |-> 1, den |-> 40]
       /\ (pc = "emit" /\ BRefinedTo8700) =>
             /\ evalThresholdCp = 8800
             /\ analysisMoves = <<>>
             /\ EmitLoop(retTree, summary, retNode, curPly, analysisMoves)
                   = [tree |-> retTree, summary |-> summary]
             /\ NodeOf(retTree, retNode).variations = <<>>
             /\ curPly \notin DOMAIN summary.surpriseMoves

\* the scenario has run up to the final prune with B refined to 8700
C15_Witness ==
    /\ InScenario
    /\ pc = "emit"
    /\ BRefinedTo8700
    /\ analysisMoves = <<>>

\* plies at which analyzePosition returned at the book cut-off: the explorer
\* was asked, the engine was not, and the call is over
CutoffPlies ==
    {p \in bookCalls \ engineCalls : p # curPly \/ pc \in {"advance", "loop", "done"}}

\* C16: every ply with an entry in summary.surpriseMoves has an entry in
\* summary.bookStats, and a ply at which the book cut-off triggered has
\* neither.
C16_SummaryEntries ==
    /\ DOMAIN summary.surpriseMoves \subseteq DOMAIN summary.bookStats
    /\ \A p \in CutoffPlies :
          p \notin DOMAIN summary.bookStats /\ p \notin DOMAIN summary.surpriseMoves

\* a walk has ended with a ply that got surprise moves, a later ply that was
\* cut off and a ply that was skipped after it
C16_Witness ==
    /\ pc = "done"
    /\ \E p \in DOMAIN summary.surpriseMoves, q \in CutoffPlies :
          p < q /\ q < curPly /\ curPly \notin bookCalls

====
